---- MODULE Spec2Model ----
(***************************************************************************)
(* A model of gpt_engineer/steps.py: the workflow catalog STEPS, the step  *)
(* functions, and the menu loop choice_loop with its classifier            *)
(* choice_input.                                                           *)
(*                                                                         *)
(* Text is modelled as a sequence of chunks.  A chunk is one character     *)
(* ("a", " ", "\n", ...) or an opaque piece of text written in angle       *)
(* brackets ("<preprompts.spec>") that holds no whitespace, digit or       *)
(* punctuation the code inspects.                                          *)
(***************************************************************************)
EXTENDS Integers, Sequences, FiniteSets, TLC

VARIABLES
    dbs,        \* the four stores of DBs the steps use: input, memory, workspace, logs
    cl,         \* the frame of choice_loop (its locals and its position)
    st,         \* the frame of the step function that is running
    at_call,    \* the stores and the number of exchanges when the running step was called
    exchanges,  \* the step_name label of every exchange issued to the session, in order
    console,    \* the messages printed to the operator so far
    proc,       \* the subprocess of execute_entrypoint
    run         \* the frame of the engine that runs a catalog workflow

vars == <<dbs, cl, st, at_call, exchanges, console, proc, run>>

-----------------------------------------------------------------------------
(* Bounds of the model. *)

\* Longest operator input typed at the menu prompt, besides "done" and "quit".
MaxInputLen == 2
\* Most answers the operator gives inside one clarify call.
MaxClarifyRounds == 2
\* Most menu prompts of one choice_loop call.
MaxMenuPrompts == 3

-----------------------------------------------------------------------------
(* Python values. *)

\* Python's None, where a text or a list is expected.
None == <<"<None>">>

\* All sequences over S of length at most n.
SeqsUpTo(S, n) == UNION {[1..k -> S] : k \in 0..n}

Last(s) == s[Len(s)]

\* s[1:] without the slice: the first element is kept.
keep_all(s) == s

\* s[1:]
DropFirst(s) == IF s = <<>> THEN <<>> ELSE Tail(s)

\* str.startswith
startswith(s, p) == Len(s) >= Len(p) /\ SubSeq(s, 1, Len(p)) = p

\* str.removeprefix
removeprefix(s, p) == IF startswith(s, p) THEN SubSeq(s, Len(p) + 1, Len(s)) ELSE s

LowerLetters == <<"a", "b", "c", "d", "e", "f", "g", "h", "i", "j", "k", "l", "m", "n", "o", "p", "q", "r", "s", "t", "u", "v", "w", "x", "y", "z">>
UpperLetters == <<"A", "B", "C", "D", "E", "F", "G", "H", "I", "J", "K", "L", "M", "N", "O", "P", "Q", "R", "S", "T", "U", "V", "W", "X", "Y", "Z">>

IndexIn(c, letters) == IF \E i \in 1..Len(letters) : letters[i] = c
                       THEN CHOOSE i \in 1..Len(letters) : letters[i] = c
                       ELSE 0

IsLetter(c) == IndexIn(c, LowerLetters) > 0 \/ IndexIn(c, UpperLetters) > 0

upper(c) == IF IndexIn(c, LowerLetters) > 0 THEN UpperLetters[IndexIn(c, LowerLetters)] ELSE c

lower(c) == IF IndexIn(c, UpperLetters) > 0 THEN LowerLetters[IndexIn(c, UpperLetters)] ELSE c

\* str.lower that leaves every character as it is.
lowerstr_identity(s) == s

\* str.lower
lowerstr(s) == [i \in 1..Len(s) |-> lower(s[i])]

\* str.title: a letter that follows a non-letter (or starts the text) is upper-cased,
\* every other letter lower-cased.
title(s) == [i \in 1..Len(s) |->
               IF i = 1 \/ ~IsLetter(s[i - 1]) THEN upper(s[i]) ELSE lower(s[i])]

Whitespace == {" ", "\n", "\t"}

RECURSIVE lstrip(_)
lstrip(s) == IF s # <<>> /\ Head(s) \in Whitespace THEN lstrip(Tail(s)) ELSE s

RECURSIVE rstrip(_)
rstrip(s) == IF s # <<>> /\ Last(s) \in Whitespace
             THEN rstrip(SubSeq(s, 1, Len(s) - 1)) ELSE s

\* str.strip
strip(s) == rstrip(lstrip(s))

\* The characters int() reads as decimal digits, and the wider class str.isdigit accepts
\* (a superscript two is a digit to isdigit, and not a numeral to int).
DecimalDigits == <<"0", "1", "2", "3", "4", "5", "6", "7", "8", "9">>
IsDigitChar(c) == IndexIn(c, DecimalDigits) > 0 \/ c = "²"

\* str.isdigit: non-empty and every character a digit.
isdigit(s) == s # <<>> /\ \A i \in 1..Len(s) : IsDigitChar(s[i])

RECURSIVE DecimalValue(_)
DecimalValue(s) == IF s = <<>> THEN 0
                   ELSE 10 * DecimalValue(SubSeq(s, 1, Len(s) - 1))
                        + (IndexIn(Last(s), DecimalDigits) - 1)

\* int(s) for a text without sign or blanks: a number, or ValueError.
int(s) == IF s # <<>> /\ \A i \in 1..Len(s) : IndexIn(s[i], DecimalDigits) > 0
          THEN [ok |-> TRUE, value |-> DecimalValue(s), err |-> ""]
          ELSE [ok |-> FALSE, value |-> 0, err |-> "ValueError"]

\* str(n) for 0 <= n.
RECURSIVE str(_)
str(n) == IF n < 10 THEN <<DecimalDigits[n + 1]>>
          ELSE str(n \div 10) \o <<DecimalDigits[(n % 10) + 1]>>

\* list[i] with Python's indexing: 0-based, negative indices count from the end,
\* IndexError outside -len..len-1.
pyindex(list, i) ==
    IF 0 <= i /\ i < Len(list) THEN [ok |-> TRUE, value |-> list[i + 1], err |-> ""]
    ELSE IF -Len(list) <= i /\ i < 0
         THEN [ok |-> TRUE, value |-> list[Len(list) + i + 1], err |-> ""]
         ELSE [ok |-> FALSE, value |-> None, err |-> "IndexError"]

-----------------------------------------------------------------------------
(* The workflow catalog. *)

LOOP_BODY_PREFIX == <<"l", "o", "o", "p", "_", "b", "o", "d", "y", "_">>

DEFAULT == <<"d", "e", "f", "a", "u", "l", "t">>
BENCHMARK == <<"b", "e", "n", "c", "h", "m", "a", "r", "k">>
SIMPLE == <<"s", "i", "m", "p", "l", "e">>
TDD == <<"t", "d", "d">>
TDD_PLUS == <<"t", "d", "d", "+">>
CLARIFY == <<"c", "l", "a", "r", "i", "f", "y">>
RESPEC == <<"r", "e", "s", "p", "e", "c">>
EXECUTE_ONLY == <<"e", "x", "e", "c", "u", "t", "e", "_", "o", "n", "l", "y">>
EVALUATE == <<"e", "v", "a", "l", "u", "a", "t", "e">>
USE_FEEDBACK == <<"u", "s", "e", "_", "f", "e", "e", "d", "b", "a", "c", "k">>
IMPROVE_CODE == <<"i", "m", "p", "r", "o", "v", "e", "_", "c", "o", "d", "e">>
EVAL_IMPROVE_CODE == <<"e", "v", "a", "l", "_", "i", "m", "p", "r", "o", "v", "e", "_", "c", "o", "d", "e">>
CHOICE_LOOP == <<"c", "h", "o", "i", "c", "e", "_", "l", "o", "o", "p">>
LOOP_BODY_FEEDBACK == LOOP_BODY_PREFIX \o <<"f", "e", "e", "d", "b", "a", "c", "k">>
LOOP_BODY_EVALUATE == LOOP_BODY_PREFIX \o <<"e", "v", "a", "l", "u", "a", "t", "e">>

\* The dict literal STEPS with respec declared before gen_spec in the workflow "respec".
STEPS_respec_first == <<
    [key |-> DEFAULT, steps |-> <<"clarify", "gen_clarified_code", "gen_entrypoint",
                                  "execute_entrypoint", "human_review">>],
    [key |-> BENCHMARK, steps |-> <<"simple_gen", "gen_entrypoint">>],
    [key |-> SIMPLE, steps |-> <<"simple_gen", "gen_entrypoint", "execute_entrypoint">>],
    [key |-> TDD, steps |-> <<"gen_spec", "gen_unit_tests", "gen_code_after_unit_tests",
                              "gen_entrypoint", "execute_entrypoint", "human_review">>],
    [key |-> TDD_PLUS, steps |-> <<"gen_spec", "gen_unit_tests", "gen_code_after_unit_tests",
                                   "fix_code", "gen_entrypoint", "execute_entrypoint",
                                   "human_review">>],
    [key |-> CLARIFY, steps |-> <<"clarify", "gen_clarified_code", "gen_entrypoint",
                                  "execute_entrypoint", "human_review">>],
    [key |-> RESPEC, steps |-> <<"respec", "gen_spec", "gen_unit_tests",
                                 "gen_code_after_unit_tests", "fix_code", "gen_entrypoint",
                                 "execute_entrypoint", "human_review">>],
    [key |-> USE_FEEDBACK, steps |-> <<"use_feedback", "gen_entrypoint",
                                       "execute_entrypoint", "human_review">>],
    [key |-> EXECUTE_ONLY, steps |-> <<"execute_entrypoint">>],
    [key |-> EVALUATE, steps |-> <<"execute_entrypoint", "human_review">>],
    [key |-> IMPROVE_CODE, steps |-> <<"set_improve_filelist", "get_improve_prompt",
                                       "improve_existing_code">>],
    [key |-> EVAL_IMPROVE_CODE, steps |-> <<"assert_files_ready", "improve_existing_code">>],
    [key |-> CHOICE_LOOP, steps |-> <<"choice_loop">>],
    [key |-> LOOP_BODY_EVALUATE, steps |-> <<"execute_entrypoint", "human_review">>] >>

\* The dict literal STEPS, in insertion order; a step is named by its __name__.
STEPS_literal == <<
    [key |-> DEFAULT, steps |-> <<"clarify", "gen_clarified_code", "gen_entrypoint",
                                  "execute_entrypoint", "human_review">>],
    [key |-> BENCHMARK, steps |-> <<"simple_gen", "gen_entrypoint">>],
    [key |-> SIMPLE, steps |-> <<"simple_gen", "gen_entrypoint", "execute_entrypoint">>],
    [key |-> TDD, steps |-> <<"gen_spec", "gen_unit_tests", "gen_code_after_unit_tests",
                              "gen_entrypoint", "execute_entrypoint", "human_review">>],
    [key |-> TDD_PLUS, steps |-> <<"gen_spec", "gen_unit_tests", "gen_code_after_unit_tests",
                                   "fix_code", "gen_entrypoint", "execute_entrypoint",
                                   "human_review">>],
    [key |-> CLARIFY, steps |-> <<"clarify", "gen_clarified_code", "gen_entrypoint",
                                  "execute_entrypoint", "human_review">>],
    [key |-> RESPEC, steps |-> <<"gen_spec", "respec", "gen_unit_tests",
                                 "gen_code_after_unit_tests", "fix_code", "gen_entrypoint",
                                 "execute_entrypoint", "human_review">>],
    [key |-> USE_FEEDBACK, steps |-> <<"use_feedback", "gen_entrypoint",
                                       "execute_entrypoint", "human_review">>],
    [key |-> EXECUTE_ONLY, steps |-> <<"execute_entrypoint">>],
    [key |-> EVALUATE, steps |-> <<"execute_entrypoint", "human_review">>],
    [key |-> IMPROVE_CODE, steps |-> <<"set_improve_filelist", "get_improve_prompt",
                                       "improve_existing_code">>],
    [key |-> EVAL_IMPROVE_CODE, steps |-> <<"assert_files_ready", "improve_existing_code">>],
    [key |-> CHOICE_LOOP, steps |-> <<"choice_loop">>],
    [key |-> LOOP_BODY_EVALUATE, steps |-> <<"execute_entrypoint", "human_review">>] >>

\* dict.get(key, default) on an ordered dict held as a sequence of items.
dict_get(d, key, default) ==
    IF \E i \in 1..Len(d) : d[i].key = key
    THEN d[CHOOSE i \in 1..Len(d) : d[i].key = key].steps
    ELSE default

\* STEPS after the module has run: the literal, then the item added for
\* Config.LOOP_BODY_FEEDBACK.
STEPS == Append(STEPS_literal,
                [key |-> LOOP_BODY_FEEDBACK,
                 steps |-> <<"ask_feedback">> \o dict_get(STEPS_literal, USE_FEEDBACK, <<>>)])

\* list(STEPS.keys())
STEPS_keys == [i \in 1..Len(STEPS) |-> STEPS[i].key]

\* keys_startingwith without its test: every key is kept.
keys_unfiltered(keys, prefix) == keys

\* [key for key in keys if key.startswith(prefix)]
RECURSIVE keys_startingwith(_, _)
keys_startingwith(keys, prefix) ==
    IF keys = <<>> THEN <<>>
    ELSE (IF startswith(Head(keys), prefix) THEN <<Head(keys)>> ELSE <<>>)
         \o keys_startingwith(Tail(keys), prefix)

-----------------------------------------------------------------------------
(* The stores (DBs) and the conversation session (AI). *)

\* key in db
has(d, db, key) == key \in DOMAIN d[db]

\* db[key]: the document, or KeyError when the store holds no such key
getitem(d, db, key) ==
    IF has(d, db, key) THEN [ok |-> TRUE, value |-> d[db][key], err |-> ""]
    ELSE [ok |-> FALSE, value |-> <<>>, err |-> "KeyError"]

\* db[key] = value
setitem(d, db, key, value) ==
    [d EXCEPT ![db] = [k \in (DOMAIN @) \cup {key} |-> IF k = key THEN value ELSE @[k]]]

\* A turn of a conversation: ai.fsystem, ai.fuser, ai.fassistant build one.
Turn(role, content) == [role |-> role, content |-> content]

\* AI.serialize_messages / AI.deserialize_messages: a log is persisted as JSON text
\* and read back turn for turn.
serialize_messages(messages) == [json |-> messages]
deserialize_messages(text) == text.json

\* What the session may answer to an exchange labelled `label` (a sample of the
\* texts a model can return; the answers to clarify include its two stop forms).
Sentinel == <<"N", "o", "t", "h", "i", "n", "g", " ", "m", "o", "r", "e", " ", "t", "o", " ", "c", "l", "a", "r", "i", "f", "y", ".">>
\* The backtick character, and a fence of three.
backtick == "<backtick>"
Fence == <<backtick, backtick, backtick>>

\* Answers to gen_entrypoint: one tagged block; two blocks among prose; an empty
\* block followed by prose and a block; a block fenced with four backticks; prose only.
EntrypointResponses ==
    { Fence \o <<"s", "h", "\n", "e", "\n">> \o Fence,
      <<"t", "\n">> \o Fence \o <<"\n", "a", "\n">> \o Fence \o <<"\n", "m", "\n">>
          \o Fence \o <<"s", "h", "\n", "b", "\n">> \o Fence,
      Fence \o <<"\n">> \o Fence \o <<"\n", "x", "\n">>
          \o Fence \o <<"s", "h", "\n", "e", "\n">> \o Fence,
      Fence \o <<backtick, "\n", "c", "\n">> \o Fence \o <<backtick>>,
      <<"z">> }

Responses(label) ==
    IF label = "clarify"
    THEN {Sentinel, <<"N", "o", "p", "e">>, <<"1", " ", "q", "?">>}
    ELSE IF label = "gen_entrypoint"
         THEN EntrypointResponses
         ELSE {<<"a">>, <<" ", "b", "\n">>}

\* setup_sys_prompt(dbs) and setup_sys_prompt_existing_code(dbs)
setup_sys_prompt ==
    <<"<preprompts.roadmap>", "<preprompts.generate>", "\n", "<Useful to know:>", "\n",
      "<preprompts.philosophy>">>
setup_sys_prompt_existing_code ==
    <<"<preprompts.implement_on_existing>", "\n", "<Useful to know:>", "\n",
      "<preprompts.philosophy>">>

\* get_prompt with the two documents taken in the other order: the legacy
\* main_prompt is preferred.
get_prompt_legacy_first(d) ==
    IF ~(has(d, "input", "prompt") \/ has(d, "input", "main_prompt"))
    THEN [ok |-> FALSE, value |-> None, err |-> "AssertionError", warned |-> FALSE]
    ELSE IF has(d, "input", "main_prompt")
         THEN [ok |-> TRUE, value |-> d.input["main_prompt"], err |-> "", warned |-> TRUE]
         ELSE [ok |-> TRUE, value |-> d.input["prompt"], err |-> "", warned |-> FALSE]

\* get_prompt(dbs): the prompt, the legacy main_prompt when there is no prompt, an
\* assertion error when there is neither.
get_prompt(d) ==
    IF ~(has(d, "input", "prompt") \/ has(d, "input", "main_prompt"))
    THEN [ok |-> FALSE, value |-> None, err |-> "AssertionError", warned |-> FALSE]
    ELSE IF ~has(d, "input", "prompt")
         THEN [ok |-> TRUE, value |-> d.input["main_prompt"], err |-> "", warned |-> TRUE]
         ELSE [ok |-> TRUE, value |-> d.input["prompt"], err |-> "", warned |-> FALSE]

-----------------------------------------------------------------------------
(* The step functions, each as the sequence of its operations on the        *)
(* stores, the session and the console.                                     *)

Op(op, role, text, db, key) == [op |-> op, role |-> role, text |-> text, db |-> db, key |-> key]

\* messages.append(ai.f<role>(text))
OpTurn(role, text) == Op("turn", role, text, "", "")
\* messages.append(ai.f<role>(text + dbs.<db>[key])): KeyError when the key is absent
OpItem(role, text, db, key) == Op("item", role, text, db, key)
\* val = dbs.<db>[key]: KeyError when the key is absent
OpGet(db, key) == Op("get", "", <<>>, db, key)
\* val = dbs.<db>.get(key, None)
OpGetDefault(db, key) == Op("get_default", "", <<>>, db, key)
\* assert key in dbs.<db>: AssertionError when the key is absent
OpAssertIn(db, key) == Op("assert_in", "", <<>>, db, key)
\* val = get_prompt(dbs)
OpGetPrompt == Op("get_prompt", "", <<>>, "", "")
\* messages = AI.deserialize_messages(dbs.logs[key]): KeyError when the key is absent
OpLoad(key) == Op("load", "", <<>>, "logs", key)
\* messages = ai.start(system, text + val, step_name=curr_fn())
OpStart(system, text) == Op("start", system, text, "", "")
\* messages = ai.next(messages, text, step_name=curr_fn())
OpNext(text) == Op("next", "user", text, "", "")
\* messages = ai.next(messages, step_name=curr_fn())
OpNextNone == Op("next_none", "", <<>>, "", "")
\* messages = ai.next(messages, val, step_name=curr_fn())
OpNextVal == Op("next_val", "user", <<>>, "", "")
\* dbs.<db>[key] = messages[-1].content.strip()
OpPutLast(db, key) == Op("put_last", "", <<>>, db, key)
\* to_files(messages[-1].content.strip(), dbs.workspace)
OpToFiles == Op("to_files", "", <<>>, "workspace", "")
\* overwrite_files(messages[-1].content.strip(), dbs)
OpOverwriteFiles == Op("overwrite_files", "", <<>>, "workspace", "")
\* return messages
OpReturn == Op("return", "", <<>>, "", "")
\* return []
OpReturnEmpty == Op("return_empty", "", <<>>, "", "")
\* An operation of one step only, named by `op`.
OpOf(op) == Op(op, "", <<>>, "", "")

Instructions == <<"I", "n", "s", "t", "r", "u", "c", "t", "i", "o", "n", "s", ":", " ">>
Specification == <<"S", "p", "e", "c", "i", "f", "i", "c", "a", "t", "i", "o", "n", ":", "\n", "\n">>
UnitTests == <<"U", "n", "i", "t", " ", "t", "e", "s", "t", "s", ":", "\n", "\n">>

simple_gen ==
    << OpGetPrompt,
       OpStart(setup_sys_prompt, <<>>),
       OpToFiles,
       OpReturn >>

ask_feedback ==
    << OpGetDefault("memory", "review"),
       OpOf("print_review"),
       OpOf("input_feedback"),
       OpReturnEmpty >>

\* clarify with one more user turn appended before its last exchange.
clarify_two_turns ==
    << OpTurn("system", <<"<preprompts.clarify>">>),
       OpGetPrompt,
       OpNextVal,
       OpOf("clarify_check"),
       OpOf("clarify_input"),
       OpTurn("user", <<"<(letting gpt-engineer make its own assumptions)>">>),
       OpNext(<<"<Make your own assumptions and state them explicitly before starting>">>),
       OpReturn >>

clarify ==
    << OpTurn("system", <<"<preprompts.clarify>">>),
       OpGetPrompt,
       OpNextVal,
       OpOf("clarify_check"),
       OpOf("clarify_input"),
       OpNext(<<"<Make your own assumptions and state them explicitly before starting>">>),
       OpReturn >>

gen_spec ==
    << OpTurn("system", setup_sys_prompt),
       OpItem("system", Instructions, "input", "prompt"),
       OpNext(<<"<preprompts.spec>">>),
       OpPutLast("memory", "specification"),
       OpReturn >>

\* respec that keeps only the text of the last turn of the log it loads and starts
\* its conversation anew.
respec_from_scratch ==
    << OpLoad("gen_spec"),
       OpOf("code_output"),
       OpTurn("system", <<"<preprompts.respec>">>),
       OpNextNone,
       OpNext(<<"<Based on the conversation so far, please reiterate the specification ...>">>),
       OpPutLast("memory", "specification"),
       OpReturn >>

\* respec with the persisted log read only after the first exchange.
respec_exchange_first ==
    << OpTurn("system", <<"<preprompts.respec>">>),
       OpNextNone,
       OpLoad("gen_spec"),
       OpNext(<<"<Based on the conversation so far, please reiterate the specification ...>">>),
       OpPutLast("memory", "specification"),
       OpReturn >>

respec ==
    << OpLoad("gen_spec"),
       OpTurn("system", <<"<preprompts.respec>">>),
       OpNextNone,
       OpNext(<<"<Based on the conversation so far, please reiterate the specification ...>">>),
       OpPutLast("memory", "specification"),
       OpReturn >>

\* gen_unit_tests that stores the tests, then asks the session once more before it
\* writes the files.
gen_unit_tests_ask_again ==
    << OpTurn("system", setup_sys_prompt),
       OpItem("user", Instructions, "input", "prompt"),
       OpItem("user", Specification, "memory", "specification"),
       OpNext(<<"<preprompts.unit_tests>">>),
       OpPutLast("memory", "unit_tests"),
       OpNextNone,
       OpToFiles,
       OpReturn >>

gen_unit_tests ==
    << OpTurn("system", setup_sys_prompt),
       OpItem("user", Instructions, "input", "prompt"),
       OpItem("user", Specification, "memory", "specification"),
       OpNext(<<"<preprompts.unit_tests>">>),
       OpPutLast("memory", "unit_tests"),
       OpToFiles,
       OpReturn >>

gen_clarified_code ==
    << OpLoad("clarify"),
       OpOf("replace_first"),
       OpNext(<<"<preprompts.generate>">>),
       OpToFiles,
       OpReturn >>

gen_code_after_unit_tests ==
    << OpTurn("system", setup_sys_prompt),
       OpItem("user", Instructions, "input", "prompt"),
       OpItem("user", Specification, "memory", "specification"),
       OpItem("user", UnitTests, "memory", "unit_tests"),
       OpNext(<<"<preprompts.generate>">>),
       OpToFiles,
       OpReturn >>

execute_entrypoint ==
    << OpGet("workspace", "run.sh"),
       OpOf("confirm"),
       OpOf("popen"),
       OpOf("wait"),
       OpReturnEmpty >>

use_feedback ==
    << OpTurn("system", setup_sys_prompt),
       OpItem("user", Instructions, "input", "prompt"),
       OpItem("assistant", <<>>, "workspace", "all_output.txt"),
       OpGet("input", "feedback"),
       OpOf("exit_if_empty"),
       OpNextVal,
       OpToFiles,
       OpReturn >>

improve_existing_code ==
    << OpOf("get_code_strings"),
       OpTurn("system", setup_sys_prompt_existing_code),
       OpItem("user", Instructions, "input", "prompt"),
       OpOf("files_turns"),
       OpNext(<<"<output_format_str>">>),
       OpOverwriteFiles,
       OpReturn >>

fix_code ==
    << OpLoad("gen_code_after_unit_tests"),
       OpOf("code_output"),
       OpTurn("system", setup_sys_prompt),
       OpItem("user", Instructions, "input", "prompt"),
       OpOf("val_turn"),
       OpTurn("system", <<"<preprompts.fix_code>">>),
       OpNext(<<"<Please fix any errors in the code above.>">>),
       OpToFiles,
       OpReturn >>

gen_entrypoint ==
    << OpGet("workspace", "all_output.txt"),
       OpStart(<<"<You will get information about a codebase ...>">>,
               <<"<Information about the codebase:>", "\n", "\n">>),
       OpOf("put_run_sh"),
       OpReturn >>

set_improve_filelist ==
    << OpOf("ask_for_files"),
       OpReturnEmpty >>

assert_files_ready ==
    << OpAssertIn("input", "file_list.txt"),
       OpAssertIn("input", "prompt"),
       OpReturnEmpty >>

get_improve_prompt ==
    << OpOf("input_prompt"),
       OpGet("input", "file_list.txt"),
       OpGet("input", "prompt"),
       OpOf("input_proceed"),
       OpReturnEmpty >>

human_review ==
    << OpOf("human_review_input"),
       OpReturnEmpty >>

\* The steps that are called alone, each on every store.
StepNames == {"simple_gen", "ask_feedback", "clarify", "gen_spec", "respec", "gen_unit_tests",
              "gen_clarified_code", "gen_code_after_unit_tests", "execute_entrypoint",
              "use_feedback", "improve_existing_code", "fix_code"}

\* The step functions that call ai.start or ai.next.
SessionSteps == {"simple_gen", "clarify", "gen_spec", "respec", "gen_unit_tests",
                 "gen_clarified_code", "gen_code_after_unit_tests", "gen_entrypoint",
                 "use_feedback", "improve_existing_code", "fix_code"}

\* The body of the step function named `name`.
Body(name) ==
    CASE name = "simple_gen" -> simple_gen
      [] name = "ask_feedback" -> ask_feedback
      [] name = "clarify" -> clarify
      [] name = "gen_spec" -> gen_spec
      [] name = "respec" -> respec
      [] name = "gen_unit_tests" -> gen_unit_tests
      [] name = "gen_clarified_code" -> gen_clarified_code
      [] name = "gen_code_after_unit_tests" -> gen_code_after_unit_tests
      [] name = "execute_entrypoint" -> execute_entrypoint
      [] name = "use_feedback" -> use_feedback
      [] name = "improve_existing_code" -> improve_existing_code
      [] name = "fix_code" -> fix_code
      [] name = "gen_entrypoint" -> gen_entrypoint
      [] name = "set_improve_filelist" -> set_improve_filelist
      [] name = "assert_files_ready" -> assert_files_ready
      [] name = "get_improve_prompt" -> get_improve_prompt
      [] name = "human_review" -> human_review

-----------------------------------------------------------------------------
(* Frames and initial stores. *)

IdleStep == [name |-> "", ip |-> 0, status |-> "idle", messages |-> <<>>, val |-> None,
             ret |-> <<>>, err |-> "", rounds |-> 0, answer |-> None]

\* The frame of a step function at its first operation.
CallStep(name) == [IdleStep EXCEPT !.name = name, !.ip = 1, !.status = "running"]

\* The engine's frame: the workflow it runs and the number of its steps that are done.
IdleRun == [pc |-> "idle", key |-> None, steps |-> <<>>, i |-> 0]

IdleLoop == [pc |-> "idle", loop_body_keys |-> <<>>, choices |-> <<>>, user_input |-> None,
             body_steps |-> None, i |-> 0, prompts |-> 0, reply |-> None, ret |-> <<>>,
             err |-> ""]

Snapshot(d, ex) == [dbs |-> d, exchanges |-> Len(ex)]

\* Logs as earlier runs of gen_spec, clarify and gen_code_after_unit_tests leave them.
PersistedLog(name) ==
    serialize_messages(
        CASE name = "gen_spec" ->
               << Turn("system", setup_sys_prompt), Turn("system", Instructions \o <<"p">>),
                  Turn("user", <<"<preprompts.spec>">>), Turn("assistant", <<"s">>) >>
          [] name = "clarify" ->
               << Turn("system", <<"<preprompts.clarify>">>), Turn("user", <<"p">>),
                  Turn("assistant", Sentinel) >>
          [] name = "gen_code_after_unit_tests" ->
               << Turn("system", setup_sys_prompt), Turn("user", Instructions \o <<"p">>),
                  Turn("user", Specification \o <<"s">>), Turn("user", UnitTests \o <<"u">>),
                  Turn("user", <<"<preprompts.generate>">>), Turn("assistant", <<"o", "\n">>) >>)

\* A store that holds every artifact; `fb` is the feedback document.
FullStore(fb) ==
    [input |-> [k \in {"prompt", "main_prompt", "feedback", "file_list.txt"} |->
                  CASE k = "prompt" -> <<"p">>
                    [] k = "main_prompt" -> <<"m">>
                    [] k = "feedback" -> fb
                    [] k = "file_list.txt" -> <<"<file_list>">>],
     memory |-> [k \in {"specification", "unit_tests", "review"} |->
                  CASE k = "specification" -> <<"s">>
                    [] k = "unit_tests" -> <<"u">>
                    [] k = "review" -> <<"r">>],
     workspace |-> [k \in {"all_output.txt", "run.sh"} |->
                  CASE k = "all_output.txt" -> <<"o">>
                    [] k = "run.sh" -> <<"c">>],
     logs |-> [k \in {"gen_spec", "clarify", "gen_code_after_unit_tests"} |-> PersistedLog(k)]]

\* FullStore(fb) without the artifacts in `absent`, a set of <<db, key>>.
StoreWithout(absent, fb) ==
    [db \in {"input", "memory", "workspace", "logs"} |->
       [k \in {x \in DOMAIN FullStore(fb)[db] : <<db, x>> \notin absent} |->
          FullStore(fb)[db][k]]]

\* The stores a run may start from: any of `varied` may be absent, and the feedback
\* document may be empty.
Stores(varied) == {StoreWithout(absent, fb) : absent \in SUBSET varied, fb \in {<<>>, <<"f">>}}

\* The artifacts the loop-body workflows read.
LoopVaried == {<<"input", "prompt">>, <<"input", "feedback">>, <<"memory", "review">>,
               <<"workspace", "all_output.txt">>, <<"workspace", "run.sh">>}

\* The artifacts the modelled steps read.
StepVaried == {<<"input", "prompt">>, <<"input", "main_prompt">>, <<"input", "feedback">>,
               <<"input", "file_list.txt">>, <<"memory", "specification">>,
               <<"memory", "unit_tests">>, <<"memory", "review">>,
               <<"workspace", "all_output.txt">>, <<"workspace", "run.sh">>,
               <<"logs", "gen_spec">>, <<"logs", "clarify">>,
               <<"logs", "gen_code_after_unit_tests">>}

-----------------------------------------------------------------------------
(* Running a step function. *)

Running == st.status = "running"
CurOp == Body(st.name)[st.ip]

\* Leave with the failure swallowed by choice_loop, which goes on to the next step.
Leave_and_continue(kind, err) ==
    /\ st' = [st EXCEPT !.status = kind, !.err = err]
    /\ cl' = IF cl.pc = "in_step" THEN [cl EXCEPT !.pc = "for", !.i = @ + 1] ELSE cl

\* An exception (or exit(1)) leaves the step function; choice_loop catches nothing,
\* so it leaves choice_loop too when choice_loop called the step.
Leave(kind, err) ==
    /\ st' = [st EXCEPT !.status = kind, !.err = err]
    /\ cl' = IF cl.pc = "in_step" THEN [cl EXCEPT !.pc = kind, !.err = err] ELSE cl

\* get_code_strings(dbs.input): reads the file list and the files it names.
get_code_strings(d) == getitem(d, "input", "file_list.txt")

\* What a reading operation yields: the log and the value it leaves, or its error.
ReadEffect(op, frame, d) ==
    CASE op.op = "item" ->
           [ok |-> getitem(d, op.db, op.key).ok, err |-> getitem(d, op.db, op.key).err,
            val |-> frame.val, warned |-> FALSE,
            messages |-> IF getitem(d, op.db, op.key).ok
                         THEN Append(frame.messages,
                                     Turn(op.role, op.text \o getitem(d, op.db, op.key).value))
                         ELSE frame.messages]
      [] op.op = "get" ->
           [ok |-> getitem(d, op.db, op.key).ok, err |-> getitem(d, op.db, op.key).err,
            val |-> IF getitem(d, op.db, op.key).ok THEN getitem(d, op.db, op.key).value
                    ELSE frame.val,
            warned |-> FALSE, messages |-> frame.messages]
      [] op.op = "assert_in" ->
           [ok |-> has(d, op.db, op.key),
            err |-> IF has(d, op.db, op.key) THEN "" ELSE "AssertionError",
            val |-> frame.val, warned |-> FALSE, messages |-> frame.messages]
      [] op.op = "get_default" ->
           [ok |-> TRUE, err |-> "", warned |-> FALSE, messages |-> frame.messages,
            val |-> IF has(d, op.db, op.key) THEN getitem(d, op.db, op.key).value ELSE None]
      [] op.op = "get_prompt" ->
           [ok |-> get_prompt(d).ok, err |-> get_prompt(d).err, val |-> get_prompt(d).value,
            warned |-> get_prompt(d).warned, messages |-> frame.messages]
      [] op.op = "load" ->
           [ok |-> has(d, "logs", op.key),
            err |-> IF has(d, "logs", op.key) THEN "" ELSE "KeyError",
            val |-> frame.val, warned |-> FALSE,
            messages |-> IF has(d, "logs", op.key)
                         THEN deserialize_messages(d.logs[op.key])
                         ELSE frame.messages]
      [] op.op = "get_code_strings" ->
           [ok |-> get_code_strings(d).ok, err |-> get_code_strings(d).err,
            val |-> get_code_strings(d).value, warned |-> FALSE, messages |-> frame.messages]

\* A step reads the stores: dbs.<db>[key], dbs.<db>.get, get_prompt, a persisted log.
StepRead ==
    /\ Running
    /\ CurOp.op \in {"item", "get", "get_default", "get_prompt", "load", "get_code_strings",
                     "assert_in"}
    /\ LET r == ReadEffect(CurOp, st, dbs) IN
         IF r.ok
         THEN /\ st' = [st EXCEPT !.ip = @ + 1, !.messages = r.messages, !.val = r.val]
              /\ console' = IF r.warned THEN console \cup {"Please put the prompt in the file prompt"}
                            ELSE console
              /\ cl' = cl
         ELSE /\ Leave("raised", r.err)
              /\ console' = console
    /\ UNCHANGED <<dbs, at_call, exchanges, proc, run>>

\* What an operation on the step's own variables yields.
LocalEffect(op, frame) ==
    CASE op.op = "turn" ->
           [kind |-> "next", err |-> "", val |-> frame.val, print |-> "",
            messages |-> Append(frame.messages, Turn(op.role, op.text))]
      [] op.op = "replace_first" ->
           \* [ai.fsystem(setup_sys_prompt(dbs))] + messages[1:]
           [kind |-> "next", err |-> "", val |-> frame.val, print |-> "",
            messages |-> <<Turn("system", setup_sys_prompt)>> \o DropFirst(frame.messages)]
      [] op.op = "code_output" ->
           \* code_output = messages[-1].content.strip(); messages is then built anew
           IF frame.messages = <<>>
           THEN [kind |-> "raised", err |-> "IndexError", val |-> frame.val, print |-> "",
                 messages |-> frame.messages]
           ELSE [kind |-> "next", err |-> "", val |-> strip(Last(frame.messages).content),
                 print |-> "", messages |-> <<>>]
      [] op.op = "val_turn" ->
           [kind |-> "next", err |-> "", val |-> frame.val, print |-> "",
            messages |-> Append(frame.messages, Turn("user", frame.val))]
      [] op.op = "files_turns" ->
           \* one user turn per file of files_info (the model holds one file)
           [kind |-> "next", err |-> "", val |-> frame.val, print |-> "",
            messages |-> Append(frame.messages,
                                Turn("user", <<"<format_file_to_input>">> \o frame.val))]
      [] op.op = "print_review" ->
           \* "The most recent review was: " + review
           IF frame.val = None
           THEN [kind |-> "raised", err |-> "TypeError", val |-> frame.val, print |-> "",
                 messages |-> frame.messages]
           ELSE [kind |-> "next", err |-> "", val |-> frame.val,
                 print |-> "The most recent review was", messages |-> frame.messages]
      [] op.op = "exit_if_empty" ->
           \* if dbs.input["feedback"]: ... else: print(...); exit(1)
           IF frame.val = <<>>
           THEN [kind |-> "exited", err |-> "SystemExit", val |-> frame.val,
                 print |-> "No feedback was found in the input folder",
                 messages |-> frame.messages]
           ELSE [kind |-> "next", err |-> "", val |-> frame.val, print |-> "",
                 messages |-> frame.messages]
      [] op.op = "clarify_check" ->
           IF strip(Last(frame.messages).content) = Sentinel
           THEN [kind |-> "break", err |-> "", val |-> frame.val, print |-> "",
                 messages |-> frame.messages]
           ELSE IF startswith(lowerstr(strip(Last(frame.messages).content)), <<"n", "o">>)
                THEN [kind |-> "break", err |-> "", val |-> frame.val,
                      print |-> "Nothing more to clarify.", messages |-> frame.messages]
                ELSE [kind |-> "next", err |-> "", val |-> frame.val, print |-> "",
                      messages |-> frame.messages]

\* A step works on its own variables: builds turns, tests a value, prints.
StepLocal ==
    /\ Running
    /\ CurOp.op \in {"turn", "replace_first", "code_output", "val_turn", "files_turns",
                     "print_review", "exit_if_empty", "clarify_check"}
    /\ LET r == LocalEffect(CurOp, st) IN
         /\ console' = IF r.print = "" THEN console ELSE console \cup {r.print}
         /\ IF r.kind \in {"raised", "exited"}
            THEN Leave(r.kind, r.err)
            ELSE /\ st' = [st EXCEPT !.ip = IF r.kind = "break" THEN Len(Body(st.name))
                                              ELSE @ + 1,
                                     !.messages = r.messages, !.val = r.val]
                 /\ cl' = cl
    /\ UNCHANGED <<dbs, at_call, exchanges, proc, run>>

\* The log an exchange sends: ai.start builds a system and a user turn, ai.next
\* appends the user turn it is given, if any.
Sent(op, frame) ==
    CASE op.op = "start" -> << Turn("system", op.role), Turn("user", op.text \o frame.val) >>
      [] op.op = "next" -> Append(frame.messages, Turn("user", op.text))
      [] op.op = "next_none" -> frame.messages
      [] op.op = "next_val" -> Append(frame.messages, Turn("user", frame.val))

\* One exchange with the session: the log sent, then the assistant's reply.
StepExchange ==
    /\ Running
    /\ CurOp.op \in {"start", "next", "next_none", "next_val"}
    /\ \E reply \in Responses(st.name) :
         st' = [st EXCEPT !.ip = @ + 1,
                          !.messages = Append(Sent(CurOp, st), Turn("assistant", reply))]
    /\ exchanges' = Append(exchanges, st.name)
    /\ UNCHANGED <<dbs, cl, at_call, console, proc, run>>

\* The call to the session raises (the step functions catch nothing around ai.start
\* and ai.next): no reply arrives and the step function is left.
StepExchangeFails ==
    /\ Running
    /\ CurOp.op \in {"start", "next", "next_none", "next_val"}
    /\ Leave("raised", "Exception")
    /\ UNCHANGED <<dbs, at_call, exchanges, console, proc, run>>

\* to_files(chat, workspace): the whole chat is kept as all_output.txt and the files
\* decoded from it are written.
to_files(d, chat) == setitem(setitem(d, "workspace", "all_output.txt", chat),
                             "workspace", "<files>", chat)

\* overwrite_files(chat, dbs): the files decoded from the chat replace those of the
\* file list.
overwrite_files(d, chat) == setitem(d, "workspace", "<files>", chat)

\* The regular expression of gen_entrypoint, ```\S*\n(.+?)``` with re.DOTALL.
\* Three backticks start at position i.
FenceAt(s, i) == i + 2 <= Len(s) /\ SubSeq(s, i, i + 2) = Fence

\* \S*: the position after the longest run of non-blank characters from j.
RECURSIVE SkipNonSpace(_, _)
SkipNonSpace(s, j) ==
    IF j > Len(s) \/ s[j] \in Whitespace THEN j ELSE SkipNonSpace(s, j + 1)

\* (.+?)```: the first position after c where three backticks start, so that at
\* least one character lies in between; 0 when there is none.
ContentEnd(s, c) ==
    IF \E e \in (c + 1)..Len(s) : FenceAt(s, e)
    THEN CHOOSE e \in (c + 1)..Len(s) :
           FenceAt(s, e) /\ \A f \in (c + 1)..(e - 1) : ~FenceAt(s, f)
    ELSE 0

\* The match of the expression that starts at position i, if there is one.
match_at(s, i) ==
    LET k == SkipNonSpace(s, i + 3)
        e == ContentEnd(s, k + 1)
    IN  IF FenceAt(s, i) /\ k <= Len(s) /\ s[k] = "\n" /\ e # 0
        THEN [ok |-> TRUE, group |-> SubSeq(s, k + 1, e - 1), end |-> e + 3]
        ELSE [ok |-> FALSE, group |-> <<>>, end |-> 0]

\* [match.group(1) for match in re.finditer(regex, s, re.DOTALL)], scanning from pos.
RECURSIVE finditer(_, _)
finditer(s, pos) ==
    IF pos > Len(s) THEN <<>>
    ELSE IF match_at(s, pos).ok
         THEN <<match_at(s, pos).group>> \o finditer(s, match_at(s, pos).end)
         ELSE finditer(s, pos + 1)

\* sep.join(list)
RECURSIVE join(_, _)
join(sep, list) ==
    IF list = <<>> THEN <<>>
    ELSE IF Len(list) = 1 THEN list[1]
         ELSE list[1] \o sep \o join(sep, Tail(list))

\* The stores after a writing operation.
WriteEffect(op, frame, d) ==
    CASE op.op = "put_last" -> setitem(d, op.db, op.key, strip(Last(frame.messages).content))
      [] op.op = "put_run_sh" ->
           setitem(d, "workspace", "run.sh",
                   join(<<"\n">>, finditer(strip(Last(frame.messages).content), 1)))
      [] op.op = "to_files" -> to_files(d, strip(Last(frame.messages).content))
      [] op.op = "overwrite_files" -> overwrite_files(d, strip(Last(frame.messages).content))

\* A step writes an artifact.
StepWrite ==
    /\ Running
    /\ CurOp.op \in {"put_last", "to_files", "overwrite_files", "put_run_sh"}
    /\ dbs' = WriteEffect(CurOp, st, dbs)
    /\ st' = [st EXCEPT !.ip = @ + 1]
    /\ UNCHANGED <<cl, at_call, exchanges, console, proc, run>>

\* The step function returns its log, or [].
StepReturn ==
    /\ Running
    /\ CurOp.op \in {"return", "return_empty"}
    /\ st' = [st EXCEPT !.status = "returned",
                        !.ret = IF CurOp.op = "return" THEN st.messages ELSE <<>>]
    /\ UNCHANGED <<dbs, cl, at_call, exchanges, console, proc, run>>

-----------------------------------------------------------------------------
(* Steps that ask the operator or run a process. *)

\* What the operator may type at the prompt of ask_feedback and of clarify, and at
\* the confirmation of execute_entrypoint.
FeedbackInputs == {<<>>, <<"n", "f">>}
ClarifyInputs == {<<>>, <<"c">>, <<"x">>}
ConfirmInputs == {<<>>, <<"y">>, <<"y", "e", "s">>, <<"n">>, <<"Y">>}

\* ask_feedback: dbs.input["feedback"] = user_input if user_input else review
ask_feedback_input ==
    /\ Running
    /\ CurOp.op = "input_feedback"
    /\ \E user_input \in FeedbackInputs :
         dbs' = setitem(dbs, "input", "feedback",
                        IF user_input # <<>> THEN user_input ELSE st.val)
    /\ st' = [st EXCEPT !.ip = @ + 1]
    /\ UNCHANGED <<cl, at_call, exchanges, console, proc, run>>

\* The review human_review_input() returns: none, or the operator's review.
ReviewInputs == {None, <<"<review.to_json()>">>}

\* human_review: the review, when there is one, is stored.
human_review_input ==
    /\ Running
    /\ CurOp.op = "human_review_input"
    /\ \E review \in ReviewInputs :
         dbs' = IF review # None THEN setitem(dbs, "memory", "review", review) ELSE dbs
    /\ st' = [st EXCEPT !.ip = @ + 1]
    /\ UNCHANGED <<cl, at_call, exchanges, console, proc, run>>

\* set_improve_filelist: ask_for_files(dbs.input) stores the operator's file list.
ask_for_files ==
    /\ Running
    /\ CurOp.op = "ask_for_files"
    /\ dbs' = setitem(dbs, "input", "file_list.txt", <<"<file_list>">>)
    /\ st' = [st EXCEPT !.ip = @ + 1]
    /\ UNCHANGED <<cl, at_call, exchanges, console, proc, run>>

\* What the operator may type as the improvement prompt.
ImproveInputs == {<<>>, <<"i">>}

\* get_improve_prompt: dbs.input["prompt"] = input(...), and later the operator
\* presses enter to proceed.
get_improve_prompt_input ==
    /\ Running
    /\ \/ /\ CurOp.op = "input_prompt"
          /\ \E text \in ImproveInputs : dbs' = setitem(dbs, "input", "prompt", text)
       \/ /\ CurOp.op = "input_proceed"
          /\ dbs' = dbs
    /\ st' = [st EXCEPT !.ip = @ + 1]
    /\ UNCHANGED <<cl, at_call, exchanges, console, proc, run>>

\* The text clarify appends to the operator's answer.
IsAnythingElseUnclear == <<"\n", "\n", "<Is anything else unclear? ...>">>

\* clarify: the operator answers the assistant's question, or moves on.
clarify_input ==
    /\ Running
    /\ CurOp.op = "clarify_input"
    /\ \E user_input \in ClarifyInputs :
         IF user_input = <<>> \/ user_input = <<"c">>
         THEN /\ console' = console \cup {"(letting gpt-engineer make its own assumptions)"}
              /\ st' = [st EXCEPT !.ip = @ + 1, !.val = user_input]
         ELSE /\ st.rounds < MaxClarifyRounds
              /\ console' = console
              /\ st' = [st EXCEPT !.ip = 3, !.rounds = @ + 1,
                                  !.val = user_input \o IsAnythingElseUnclear]
    /\ UNCHANGED <<dbs, cl, at_call, exchanges, proc, run>>

\* execute_entrypoint that goes on to the command unless the operator answers "n".
execute_entrypoint_unless_n ==
    /\ Running
    /\ CurOp.op = "confirm"
    /\ \E answer \in ConfirmInputs :
         IF answer = <<"n">>
         THEN /\ console' = console \cup {"Do you want to execute this code?",
                                          "Ok, not executing the code."}
              /\ st' = [st EXCEPT !.ip = Len(Body(st.name)), !.answer = answer]
         ELSE /\ console' = console \cup {"Do you want to execute this code?",
                                          "Executing the code...",
                                          "Note: If it does not work as expected, ...",
                                          "You can press ctrl+c *once* to stop the execution."}
              /\ st' = [st EXCEPT !.ip = @ + 1, !.answer = answer]
    /\ UNCHANGED <<dbs, cl, at_call, exchanges, proc, run>>

\* execute_entrypoint: the operator is shown the command and asked to confirm; the
\* frame keeps what input() returned.
execute_entrypoint_confirm ==
    /\ Running
    /\ CurOp.op = "confirm"
    /\ \E answer \in ConfirmInputs :
         IF answer \notin {<<>>, <<"y">>, <<"y", "e", "s">>}
         THEN /\ console' = console \cup {"Do you want to execute this code?",
                                          "Ok, not executing the code."}
              /\ st' = [st EXCEPT !.ip = Len(Body(st.name)), !.answer = answer]
         ELSE /\ console' = console \cup {"Do you want to execute this code?",
                                          "Executing the code...",
                                          "Note: If it does not work as expected, ...",
                                          "You can press ctrl+c *once* to stop the execution."}
              /\ st' = [st EXCEPT !.ip = @ + 1, !.answer = answer]
    /\ UNCHANGED <<dbs, cl, at_call, exchanges, proc, run>>

\* execute_entrypoint: subprocess.Popen("bash run.sh", ...)
execute_entrypoint_popen ==
    /\ Running
    /\ CurOp.op = "popen"
    /\ proc' = "running"
    /\ st' = [st EXCEPT !.ip = @ + 1]
    /\ UNCHANGED <<dbs, cl, at_call, exchanges, console, run>>

\* execute_entrypoint: p.wait() returns when the command has exited (with any
\* status), or the operator interrupts it and the process is killed.
execute_entrypoint_wait ==
    /\ Running
    /\ CurOp.op = "wait"
    /\ \E outcome \in {"exit_zero", "exit_nonzero", "interrupt"} :
         IF outcome = "interrupt"
         THEN /\ proc' = "killed"
              /\ console' = console \cup {"Stopping execution.", "Execution stopped."}
         ELSE /\ proc' = outcome
              /\ console' = console
    /\ st' = [st EXCEPT !.ip = @ + 1]
    /\ UNCHANGED <<dbs, cl, at_call, exchanges, run>>

-----------------------------------------------------------------------------
(* choice_loop and choice_input. *)

Done == <<"d", "o", "n", "e">>
Quit == <<"q", "u", "i", "t">>

\* The characters of the operator's menu inputs: numerals in and out of the menu's
\* range, a digit that is no numeral, and a letter.
MenuAlphabet == {"0", "1", "2", "3", "²", "x"}

\* What the operator may type at the menu prompt.
MenuInputs == {Done, Quit} \cup SeqsUpTo(MenuAlphabet, MaxInputLen)

\* The menu lines: f"{i+1}. {key.removeprefix(LOOP_BODY_PREFIX).title()}"
menu_choices(loop_body_keys) ==
    [i \in 1..Len(loop_body_keys) |->
       str(i) \o <<".", " ">> \o title(removeprefix(loop_body_keys[i], LOOP_BODY_PREFIX))]

\* select_steps without the shift from the menu's numbering to the list's indices.
select_steps_no_offset(text, loop_body_keys) ==
    IF ~int(text).ok
    THEN [ok |-> FALSE, err |-> int(text).err, body_steps |-> None]
    ELSE IF ~pyindex(loop_body_keys, int(text).value).ok
         THEN [ok |-> FALSE, err |-> "IndexError", body_steps |-> None]
         ELSE [ok |-> TRUE, err |-> "",
               body_steps |-> dict_get(STEPS, pyindex(loop_body_keys, int(text).value).value,
                                       <<>>)]

\* step_index = int(text) - 1; step_key = loop_body_keys[step_index];
\* body_steps = STEPS.get(step_key, [])
select_steps(text, loop_body_keys) ==
    IF ~int(text).ok
    THEN [ok |-> FALSE, err |-> int(text).err, body_steps |-> None]
    ELSE IF ~pyindex(loop_body_keys, int(text).value - 1).ok
         THEN [ok |-> FALSE, err |-> "IndexError", body_steps |-> None]
         ELSE [ok |-> TRUE, err |-> "",
               body_steps |-> dict_get(STEPS, pyindex(loop_body_keys, int(text).value - 1).value,
                                       <<>>)]

\* menu_branch with the test for "quit" left out.
menu_branch_only_done(user_input) ==
    IF user_input = Done THEN "return"
    ELSE IF isdigit(user_input) THEN "number"
    ELSE "classify"

\* The branch choice_loop takes on the operator's input.
menu_branch(user_input) ==
    IF user_input = Done \/ user_input = Quit THEN "return"
    ELSE IF isdigit(user_input) THEN "number"
    ELSE "classify"

\* `not body_steps`
falsy(body_steps) == body_steps = None \/ body_steps = <<>>

\* choice_loop is called: loop_body_keys is computed from the catalog.
choice_loop_enter ==
    /\ cl.pc = "entry"
    /\ cl' = [cl EXCEPT !.pc = "menu",
                        !.loop_body_keys = keys_startingwith(STEPS_keys, LOOP_BODY_PREFIX)]
    /\ UNCHANGED <<dbs, st, at_call, exchanges, console, proc, run>>

\* One pass of the inner loop up to the classifier call: the menu is printed, the
\* operator's input read and its branch taken.
choice_loop_menu ==
    /\ cl.pc = "menu"
    /\ cl.prompts < MaxMenuPrompts
    /\ console' = console \cup {"Choose a step to run:"}
    /\ \E user_input \in MenuInputs :
         LET shown == [cl EXCEPT !.choices = menu_choices(cl.loop_body_keys),
                                 !.user_input = user_input, !.prompts = @ + 1,
                                 !.body_steps = None]
             sel == select_steps(user_input, cl.loop_body_keys)
         IN  CASE menu_branch(user_input) = "return" ->
                    cl' = [shown EXCEPT !.pc = "returned", !.ret = <<>>]
               [] menu_branch(user_input) = "number" ->
                    IF ~sel.ok
                    THEN cl' = [shown EXCEPT !.pc = "raised", !.err = sel.err]
                    ELSE cl' = [shown EXCEPT !.body_steps = sel.body_steps, !.i = 0,
                                             !.pc = IF falsy(sel.body_steps) THEN "menu"
                                                    ELSE "for"]
               [] menu_branch(user_input) = "classify" ->
                    cl' = [shown EXCEPT !.pc = "classify"]
    /\ UNCHANGED <<dbs, st, at_call, exchanges, proc, run>>

\* What the session may answer to the classification request: None, text that is
\* no structured output, or the required shape around one of the labels.
Shape(label) == <<"[", "{", "'", "C", "'", ":", " ", "'">> \o label \o <<"'", "}", "]">>
ClassifierResponses(choices) ==
    {<<"N", "o", "n", "e">>, <<"?">>} \cup {Shape(choices[i]) : i \in 1..Len(choices)}

\* message["content"] on a message returned by the session.  The session's turns
\* are the message objects of langchain.schema, read with `.content` by every other
\* step; such an object has no __getitem__.
message_getitem(message, key) == [ok |-> FALSE, value |-> None, err |-> "TypeError"]

\* json.loads(text): the module never binds the name json.
json_loads(text) == [ok |-> FALSE, value |-> None, err |-> "NameError"]

\* json.dumps(messages): the module never binds the name json.
json_dumps(messages) == [ok |-> FALSE, value |-> None, err |-> "NameError"]

\* The value choice_input returns for the session's reply: raw_result is read from
\* the last message, parsed inside try/except Exception (which turns any failure
\* into the empty dict), and result.get("C", None) returned.
choice_input_result(message) ==
    IF ~message_getitem(message, "content").ok
    THEN [ok |-> FALSE, value |-> None, err |-> message_getitem(message, "content").err]
    ELSE IF ~json_loads(message_getitem(message, "content").value).ok
         THEN [ok |-> TRUE, value |-> None, err |-> ""]
         ELSE [ok |-> TRUE, value |-> json_loads(message_getitem(message, "content").value).value,
               err |-> ""]

\* The classifier call and what choice_loop does with its answer.
choice_input ==
    /\ cl.pc = "classify"
    /\ exchanges' = Append(exchanges, "choice_input")
    /\ \E reply \in ClassifierResponses(cl.choices) :
         LET answer == choice_input_result(Turn("assistant", reply))
             sel == select_steps(answer.value, cl.loop_body_keys)
             got == [cl EXCEPT !.reply = reply]
         IN  IF ~answer.ok
             THEN /\ cl' = [got EXCEPT !.pc = "raised", !.err = answer.err]
                  /\ console' = console
             ELSE IF answer.value = None
                  THEN /\ cl' = [got EXCEPT !.pc = "menu", !.user_input = None]
                       /\ console' = console \cup {"I don't understand. Please clarify."}
                  ELSE /\ console' = console
                       /\ IF ~sel.ok
                          THEN cl' = [got EXCEPT !.pc = "raised", !.err = sel.err,
                                                 !.user_input = answer.value]
                          ELSE cl' = [got EXCEPT !.pc = "for", !.i = 0,
                                                 !.user_input = answer.value,
                                                 !.body_steps = sel.body_steps]
    /\ UNCHANGED <<dbs, st, at_call, proc, run>>

\* for step in body_steps: messages = step(ai, dbs); when the steps are exhausted
\* the outer loop starts over at the menu.
choice_loop_call ==
    /\ cl.pc = "for"
    /\ IF cl.i < Len(cl.body_steps)
       THEN /\ st' = CallStep(cl.body_steps[cl.i + 1])
            /\ at_call' = Snapshot(dbs, exchanges)
            /\ cl' = [cl EXCEPT !.pc = "in_step"]
       ELSE /\ cl' = [cl EXCEPT !.pc = "menu", !.body_steps = None]
            /\ UNCHANGED <<st, at_call>>
    /\ UNCHANGED <<dbs, exchanges, console, proc, run>>

\* dbs.logs[step.__name__] = json.dumps(messages), after the step has returned.
choice_loop_store ==
    /\ cl.pc = "in_step"
    /\ st.status = "returned"
    /\ IF ~json_dumps(st.ret).ok
       THEN /\ cl' = [cl EXCEPT !.pc = "raised", !.err = json_dumps(st.ret).err]
            /\ dbs' = dbs
       ELSE /\ dbs' = setitem(dbs, "logs", st.name, json_dumps(st.ret).value)
            /\ cl' = [cl EXCEPT !.pc = "for", !.i = @ + 1]
    /\ st' = IdleStep
    /\ UNCHANGED <<at_call, exchanges, console, proc, run>>

-----------------------------------------------------------------------------
(* Specifications. *)

\* choice_loop is called on some store.
Init ==
    /\ dbs \in Stores(LoopVaried)
    /\ cl = [IdleLoop EXCEPT !.pc = "entry"]
    /\ st = IdleStep
    /\ at_call = Snapshot(dbs, <<>>)
    /\ exchanges = <<>>
    /\ console = {}
    /\ proc = "none"
    /\ run = IdleRun

Next ==
    \/ choice_loop_enter
    \/ choice_loop_menu
    \/ choice_input
    \/ choice_loop_call
    \/ choice_loop_store
    \/ StepRead
    \/ StepLocal
    \/ StepReturn
    \/ ask_feedback_input
    \/ execute_entrypoint_confirm
    \/ execute_entrypoint_popen
    \/ execute_entrypoint_wait

Spec == Init /\ [][Next]_vars

\* One step function is called on some store.
InitSteps ==
    /\ dbs \in Stores(StepVaried)
    /\ cl = IdleLoop
    /\ \E name \in StepNames : st = CallStep(name)
    /\ at_call = Snapshot(dbs, <<>>)
    /\ exchanges = <<>>
    /\ console = {}
    /\ proc = "none"
    /\ run = IdleRun

NextSteps ==
    \/ StepRead
    \/ StepLocal
    \/ StepExchange
    \/ StepWrite
    \/ StepReturn
    \/ ask_feedback_input
    \/ clarify_input
    \/ execute_entrypoint_confirm
    \/ execute_entrypoint_popen
    \/ execute_entrypoint_wait

SpecSteps == InitSteps /\ [][NextSteps]_vars

\* The engine calls the next step of the workflow, or is done.
engine_call ==
    /\ run.pc = "for"
    /\ IF run.i < Len(run.steps)
       THEN /\ st' = CallStep(run.steps[run.i + 1])
            /\ at_call' = Snapshot(dbs, exchanges)
            /\ run' = [run EXCEPT !.pc = "in_step"]
       ELSE /\ run' = [run EXCEPT !.pc = "done"]
            /\ UNCHANGED <<st, at_call>>
    /\ UNCHANGED <<dbs, cl, exchanges, console, proc>>

\* The engine persists the log a step returned under the step's name.
engine_store ==
    /\ run.pc = "in_step"
    /\ st.status = "returned"
    /\ dbs' = setitem(dbs, "logs", st.name, serialize_messages(st.ret))
    /\ run' = [run EXCEPT !.pc = "for", !.i = @ + 1]
    /\ st' = IdleStep
    /\ UNCHANGED <<cl, at_call, exchanges, console, proc>>

\* The catalog workflows the engine runs; choice_loop, the one step of the workflow
\* "choice_loop", is run under Spec.
EngineWorkflows == {i \in 1..Len(STEPS) : STEPS[i].key # CHOICE_LOOP}

\* A project that holds nothing but its prompt.
OnlyPrompt == StoreWithout(StepVaried \ {<<"input", "prompt">>}, <<>>)

\* The engine runs a catalog workflow on a new project or on a full store.
InitWorkflow ==
    /\ dbs \in {OnlyPrompt, FullStore(<<>>), FullStore(<<"f">>)}
    /\ cl = IdleLoop
    /\ st = IdleStep
    /\ at_call = Snapshot(dbs, <<>>)
    /\ exchanges = <<>>
    /\ console = {}
    /\ proc = "none"
    /\ \E w \in EngineWorkflows :
         run = [pc |-> "for", key |-> STEPS[w].key, steps |-> STEPS[w].steps, i |-> 0]

NextWorkflow ==
    \/ engine_call
    \/ engine_store
    \/ StepRead
    \/ StepLocal
    \/ StepExchange
    \/ StepWrite
    \/ StepReturn
    \/ ask_feedback_input
    \/ clarify_input
    \/ human_review_input
    \/ ask_for_files
    \/ get_improve_prompt_input
    \/ execute_entrypoint_confirm
    \/ execute_entrypoint_popen
    \/ execute_entrypoint_wait

SpecWorkflow == InitWorkflow /\ [][NextWorkflow]_vars

\* clarify is called on a store with or without a prompt, and runs on: every call to
\* the session and every prompt of the operator returns.
InitClarify ==
    /\ dbs \in Stores({<<"input", "prompt">>, <<"input", "main_prompt">>})
    /\ cl = IdleLoop
    /\ st = CallStep("clarify")
    /\ at_call = Snapshot(dbs, <<>>)
    /\ exchanges = <<>>
    /\ console = {}
    /\ proc = "none"
    /\ run = IdleRun

NextClarify ==
    \/ StepRead
    \/ StepLocal
    \/ StepExchange
    \/ StepReturn
    \/ clarify_input

SpecClarify == InitClarify /\ [][NextClarify]_vars /\ WF_vars(NextClarify)

\* A step that talks to the session is called on some store, and any of its calls to
\* the session may raise.
InitSession ==
    /\ dbs \in Stores(StepVaried)
    /\ cl = IdleLoop
    /\ \E name \in SessionSteps : st = CallStep(name)
    /\ at_call = Snapshot(dbs, <<>>)
    /\ exchanges = <<>>
    /\ console = {}
    /\ proc = "none"
    /\ run = IdleRun

NextSession ==
    \/ StepRead
    \/ StepLocal
    \/ StepExchange
    \/ StepExchangeFails
    \/ StepWrite
    \/ StepReturn
    \/ clarify_input

SpecSession == InitSession /\ [][NextSession]_vars

-----------------------------------------------------------------------------
(* Properties of choice_loop. *)

\* The step in which choice_loop prints the menu and reads the operator's input.
MenuRead == cl.pc = "menu" /\ cl'.prompts = cl.prompts + 1

\* The text is the decimal numeral of an integer within 1..n.
NumeralInMenu(text, n) ==
    /\ text # <<>>
    /\ \A i \in 1..Len(text) : text[i] \in {"0", "1", "2", "3", "4", "5", "6", "7", "8", "9"}
    /\ DecimalValue(text) \in 1..n

\* The steps of the catalog workflow that the menu shows as entry k.
EntrySteps(choices, k) ==
    STEPS[CHOOSE i \in 1..Len(STEPS) :
            /\ startswith(STEPS[i].key, LOOP_BODY_PREFIX)
            /\ choices[k] = str(k) \o <<".", " ">>
                            \o title(removeprefix(STEPS[i].key, LOOP_BODY_PREFIX))].steps

\* C1: when the operator's input at the menu prompt is "done" or "quit", choice_loop
\* returns the empty log at once: in that pass no exchange is issued, no step is
\* run and nothing is written to the stores.
C1_DoneQuitReturnsEmpty ==
    [][(MenuRead /\ cl'.user_input \in {Done, Quit})
         => /\ cl'.pc = "returned"
            /\ cl'.ret = <<>>
            /\ exchanges' = exchanges
            /\ dbs' = dbs
            /\ st' = st /\ st.status = "idle"]_vars

C1_Witness == cl.pc = "returned" /\ cl.user_input = Quit /\ cl.ret = <<>>

\* C2: when the operator's input is the decimal numeral of k with 1 <= k <= N, the
\* steps selected are those of the workflow shown as menu entry k, no exchange is
\* sent to the session for that input, and the step function called next is the
\* next one of the selected steps.
C2_NumberSelectsEntry ==
    [][/\ (MenuRead /\ NumeralInMenu(cl'.user_input, Len(cl.loop_body_keys)))
            => /\ cl'.pc = "for" /\ cl'.i = 0
               /\ cl'.body_steps = EntrySteps(cl'.choices, DecimalValue(cl'.user_input))
               /\ exchanges' = exchanges
       /\ (cl.pc = "for" /\ cl'.pc = "in_step")
            => /\ st'.name = cl.body_steps[cl.i + 1]
               /\ cl'.body_steps = cl.body_steps
               /\ "choice_input" \notin {exchanges[j] : j \in 1..Len(exchanges)}
                    \/ ~NumeralInMenu(cl.user_input, Len(cl.loop_body_keys))]_vars

C2_Witness ==
    /\ cl.user_input = <<"0", "2">>
    /\ cl.pc = "in_step"
    /\ st.name = "ask_feedback"
    /\ exchanges = <<>>

\* C3: every input that is neither "done"/"quit" nor the numeral of an integer
\* within 1..N is handed to the classifier, selects no workflow by itself, and does
\* not make choice_loop raise.
C3_OtherInputIsClassified ==
    [][/\ (MenuRead /\ cl'.user_input \notin {Done, Quit}
                    /\ ~NumeralInMenu(cl'.user_input, Len(cl.loop_body_keys)))
            => (cl'.pc = "classify" /\ falsy(cl'.body_steps))
       /\ (cl.pc = "classify") => (cl'.pc # "raised")]_vars

\* C4: when the classifier answers None or text that is no structured output,
\* choice_input yields no match without raising, choice_loop prints that it does
\* not understand, runs no step, writes nothing and goes back to the menu.
C4_NoMatchShowsMenuAgain ==
    [][(cl.pc = "classify" /\ cl'.reply \in {<<"N", "o", "n", "e">>, <<"?">>})
         => /\ cl'.pc = "menu"
            /\ falsy(cl'.body_steps)
            /\ "I don't understand. Please clarify." \in console'
            /\ dbs' = dbs
            /\ st' = st]_vars

\* C5: when the classifier answers in the required shape with the label of menu
\* entry k, choice_input returns that label and choice_loop selects the steps of
\* the workflow shown as entry k.
C5_LabelSelectsEntry ==
    [][\A k \in 1..Len(cl.choices) :
         (cl.pc = "classify" /\ cl'.reply = Shape(cl.choices[k]))
           => /\ cl'.pc = "for"
              /\ cl'.user_input = cl.choices[k]
              /\ cl'.body_steps = EntrySteps(cl.choices, k)]_vars

\* C6: the selected steps run in their declared order, and when a step has
\* returned, its log is stored under the step's name before the next step starts.
C6_LogStoredAfterEachStep ==
    [][/\ (cl.pc = "in_step" /\ st.status = "returned" /\ cl' # cl)
            => /\ has(dbs', "logs", st.name)
               /\ deserialize_messages(dbs'.logs[st.name]) = st.ret
               /\ cl'.pc = "for" /\ cl'.i = cl.i + 1
       /\ (cl.pc = "for" /\ cl'.pc = "in_step") => st'.name = cl.body_steps[cl.i + 1]]_vars

\* C7: once a workflow is selected, choice_loop goes on to the next menu prompt
\* unless a step fails: it ends only by returning on "done"/"quit" at the menu, or
\* with the failure of a step.
C7_LoopEndsOnlyAtMenuOrByStep ==
    (cl.pc \in {"returned", "raised", "exited"} /\ ~falsy(cl.body_steps))
      => st.status \in {"raised", "exited"}

\* The catalog workflows whose name starts with the loop-body prefix.
LoopBodies == {i \in 1..Len(STEPS) : startswith(STEPS[i].key, LOOP_BODY_PREFIX)}

\* C8: the menu lists exactly the catalog workflows whose name starts with
\* "loop_body_", each once, numbered 1..N, at every menu prompt of the call.
C8_MenuIsTheLoopBodies ==
    /\ cl.pc \notin {"idle", "entry"} =>
         /\ Len(cl.loop_body_keys) = Cardinality(LoopBodies)
         /\ \A i \in LoopBodies :
              Cardinality({j \in 1..Len(cl.loop_body_keys) :
                             cl.loop_body_keys[j] = STEPS[i].key}) = 1
    /\ cl.prompts >= 1 =>
         /\ Len(cl.choices) = Len(cl.loop_body_keys)
         /\ \A j \in 1..Len(cl.choices) :
              /\ startswith(cl.choices[j], str(j) \o <<".", " ">>)
              /\ removeprefix(cl.choices[j], str(j) \o <<".", " ">>)
                   = title(removeprefix(cl.loop_body_keys[j], LOOP_BODY_PREFIX))

C8_Witness ==
    /\ cl.prompts >= 1
    /\ cl.choices = << <<"1", ".", " ", "E", "v", "a", "l", "u", "a", "t", "e">>,
                       <<"2", ".", " ", "F", "e", "e", "d", "b", "a", "c", "k">> >>

-----------------------------------------------------------------------------
(* Properties of the step functions. *)

\* Each step that replays a persisted log, with the step whose log it replays.
ReplaySteps == {<<"respec", "gen_spec">>, <<"gen_clarified_code", "clarify">>,
                <<"fix_code", "gen_code_after_unit_tests">>}

\* The running step has issued no exchange and changed no store since it was called.
Untouched == dbs = at_call.dbs /\ Len(exchanges) = at_call.exchanges

\* C9: a replay step called when the log it replays is absent fails with a missing
\* key error at its first operation: it never returns, issues no exchange and
\* leaves the stores as they were.
C9_ReplayStepNeedsLog ==
    \A p \in ReplaySteps :
      (st.name = p[1] /\ ~has(at_call.dbs, "logs", p[2]))
        => /\ st.status \in {"running", "raised"}
           /\ st.status = "running" => st.ip = 1
           /\ st.status = "raised" => st.err = "KeyError"
           /\ Untouched

C9_Witness ==
    /\ st.name = "fix_code"
    /\ st.status = "raised"
    /\ ~has(at_call.dbs, "logs", "gen_code_after_unit_tests")
    /\ has(at_call.dbs, "input", "prompt")

\* The steps that need the prompt.
PromptSteps == {"simple_gen", "clarify", "gen_spec", "gen_unit_tests",
                "gen_code_after_unit_tests", "use_feedback", "improve_existing_code",
                "fix_code"}

\* The step has just evaluated get_prompt(dbs).
AfterGetPrompt ==
    /\ st.status = "running"
    /\ exchanges = <<>>
    /\ \/ st.name = "simple_gen" /\ st.ip = 2
       \/ st.name = "clarify" /\ st.ip = 3

\* C10: a step that needs the prompt, called on an input store with neither prompt
\* nor main_prompt, fails before any exchange and any write and never returns; and
\* get_prompt yields prompt whenever it is present, main_prompt only when prompt is
\* absent.
C10_PromptRequired ==
    /\ (/\ st.name \in PromptSteps
        /\ ~has(at_call.dbs, "input", "prompt")
        /\ ~has(at_call.dbs, "input", "main_prompt"))
         => /\ st.status \in {"running", "raised"}
            /\ st.status = "raised" => st.err \in {"AssertionError", "KeyError"}
            /\ Untouched
    /\ AfterGetPrompt
         => st.val = IF has(dbs, "input", "prompt") THEN dbs.input["prompt"]
                     ELSE dbs.input["main_prompt"]

C10_Witness ==
    /\ st.name = "simple_gen"
    /\ st.status = "raised"
    /\ st.err = "AssertionError"
    /\ ~has(dbs, "input", "prompt") /\ ~has(dbs, "input", "main_prompt")

-----------------------------------------------------------------------------
(* Failures of a step inside choice_loop. *)

\* The step called by choice_loop has failed: it raised, or it ended the process.
StepFailed == st.status \in {"raised", "exited"}

\* C11: when a step called by choice_loop fails, choice_loop ends with that failure
\* and calls none of the later steps of the selected workflow; the stores hold what
\* they held at the moment of the failure and are never changed afterwards.
C11_FailureAbortsWithoutRollback ==
    [][/\ (cl.pc = "in_step" /\ Running /\ StepFailed')
            => /\ dbs' = dbs
               /\ cl'.pc = st'.status
               /\ cl'.i = cl.i /\ cl'.body_steps = cl.body_steps
       /\ (cl.pc \in {"in_step", "raised", "exited"} /\ StepFailed) => vars' = vars]_vars

C11_Witness ==
    /\ cl.pc = "raised"
    /\ st.name = "execute_entrypoint" /\ st.status = "raised" /\ st.err = "KeyError"
    /\ Len(cl.body_steps) > cl.i + 1
    /\ dbs = at_call.dbs

-----------------------------------------------------------------------------
(* The conversation logs of the steps. *)

\* The number of exchanges the running step has issued.
ExchangesOfStep == Len(exchanges) - at_call.exchanges

RECURSIVE CountRole(_, _)
CountRole(log, role) ==
    IF log = <<>> THEN 0
    ELSE (IF Head(log).role = role THEN 1 ELSE 0) + CountRole(Tail(log), role)

\* The log ends with n exchanges, each one user or system turn followed by one
\* assistant turn.
EndsWithExchanges(log, n) ==
    /\ Len(log) >= 2 * n
    /\ \A j \in 1..n :
         /\ log[Len(log) - 2 * (n - j) - 1].role \in {"user", "system"}
         /\ log[Len(log) - 2 * (n - j)].role = "assistant"

\* The log is the priming turn of clarify followed by n pairs of a user turn and an
\* assistant turn.
ClarifyShape(log, n) ==
    /\ Len(log) = 1 + 2 * n
    /\ log[1] = Turn("system", <<"<preprompts.clarify>">>)
    /\ \A i \in 2..Len(log) : log[i].role = IF i % 2 = 0 THEN "user" ELSE "assistant"

IsPrefix(log, other) == Len(log) <= Len(other) /\ SubSeq(other, 1, Len(log)) = log

\* The log persisted under `name` when the running step was called.
LogAtCall(name) == deserialize_messages(at_call.dbs.logs[name])

\* C13: once respec has loaded the persisted log of gen_spec, that log is at every
\* point a prefix of respec's log, and so of the log respec returns, which is the
\* loaded log and the four turns respec adds; respec never changes the logs store.
C13_RespecAppendsOnly ==
    st.name = "respec" =>
      /\ dbs.logs = at_call.dbs.logs
      /\ (st.status \in {"running", "returned"} /\ st.ip >= 2)
           => IsPrefix(LogAtCall("gen_spec"), st.messages)
      /\ st.status = "returned"
           => /\ IsPrefix(LogAtCall("gen_spec"), st.ret)
              /\ Len(st.ret) = Len(LogAtCall("gen_spec")) + 4

C13_Witness ==
    /\ st.name = "respec" /\ st.status = "returned"
    /\ SubSeq(st.ret, 1, 4) = deserialize_messages(PersistedLog("gen_spec"))
    /\ Len(st.ret) = 8
    /\ st.ret[5] = Turn("system", <<"<preprompts.respec>">>)

\* Every turn of the log except the first, in the log's order.
AllButFirst(log) == [i \in 1..(Len(log) - 1) |-> log[i + 1]]

\* C14: with L the persisted log of clarify, the log gen_clarified_code sends in its
\* exchange is one system turn holding the system prompt followed by the turns of
\* L except the first, in their order, and the generate user turn; the log it
\* returns is that log and the assistant's reply.
C14_ClarifiedCodeKeepsTurns ==
    (st.name = "gen_clarified_code" /\ st.status \in {"running", "returned"} /\ st.ip >= 3)
      => LET L == LogAtCall("clarify")
             context == <<Turn("system", setup_sys_prompt)>> \o AllButFirst(L)
         IN  /\ st.ip = 3 => st.messages = context
             /\ st.ip > 3 =>
                  /\ Len(st.messages) = Len(L) + 2
                  /\ SubSeq(st.messages, 1, Len(L) + 1)
                       = Append(context, Turn("user", <<"<preprompts.generate>">>))
                  /\ Last(st.messages).role = "assistant"
             /\ st.status = "returned" => st.ret = st.messages

C14_Witness ==
    /\ st.name = "gen_clarified_code" /\ st.status = "returned"
    /\ Len(LogAtCall("clarify")) = 7
    /\ Len(st.ret) = 9
    /\ st.ret[4] = LogAtCall("clarify")[4]
    /\ st.ret[4].content = <<"x">> \o IsAnythingElseUnclear

-----------------------------------------------------------------------------
(* Properties of execute_entrypoint. *)

\* C15: however the command of execute_entrypoint ends (exit status zero or not, or
\* the operator's interrupt, after which the child process has been killed), control
\* returns to the step, the step returns the empty log, and the caller then goes on
\* to the step declared after execute_entrypoint in the workflow.
C15_ExecutionFailureIsNotFatal ==
    [][/\ (st.name = "execute_entrypoint" /\ Running /\ CurOp.op = "wait")
            => /\ st'.status = "running"
               /\ proc' \in {"exit_zero", "exit_nonzero", "killed"}
       /\ (st.name = "execute_entrypoint" /\ Running /\ st'.status = "returned")
            => st'.ret = <<>>
       /\ (st.name = "execute_entrypoint" /\ st.status = "returned"
           /\ cl.pc = "in_step" /\ cl' # cl)
            => /\ cl'.pc = "for" /\ cl'.i = cl.i + 1
               /\ cl'.body_steps = cl.body_steps
       /\ (st.name = "execute_entrypoint" /\ st.status = "returned"
           /\ run.pc = "in_step" /\ run' # run)
            => /\ run'.pc = "for" /\ run'.i = run.i + 1
               /\ run'.steps = run.steps]_vars

\* What execute_entrypoint prints before it starts the command.
PrintedBeforeCommand == {"Do you want to execute this code?", "Executing the code...",
                         "Note: If it does not work as expected, ...",
                         "You can press ctrl+c *once* to stop the execution."}

\* C16: when execute_entrypoint returns after its command exited with a non-zero
\* status or was interrupted by the operator, it has printed at least one message
\* since the command was started.
C16_ExecutionFailureIsReported ==
    (st.name = "execute_entrypoint" /\ st.status = "returned"
     /\ proc \in {"exit_nonzero", "killed"})
      => console \ PrintedBeforeCommand # {}

-----------------------------------------------------------------------------
(* Properties of gen_entrypoint. *)

\* The position of the line break that ends the line starting at position i, or the
\* position after the text when the line is the last.
RECURSIVE LineEnd(_, _)
LineEnd(s, i) == IF i > Len(s) \/ s[i] = "\n" THEN i ELSE LineEnd(s, i + 1)

\* The line that starts at position i, without its line break.
LineAt(s, i) == SubSeq(s, i, LineEnd(s, i) - 1)

\* The number of backticks the line starts with.
RECURSIVE LeadingBackticks(_)
LeadingBackticks(line) ==
    IF line # <<>> /\ Head(line) = backtick THEN 1 + LeadingBackticks(Tail(line)) ELSE 0

\* An opening fence: three or more backticks, then a language tag or nothing.
OpeningFence(line) ==
    /\ LeadingBackticks(line) >= 3
    /\ \A i \in (LeadingBackticks(line) + 1)..Len(line) :
         line[i] # backtick /\ line[i] \notin Whitespace

\* A closing fence: three or more backticks and nothing else.
ClosingFence(line) == LeadingBackticks(line) >= 3 /\ LeadingBackticks(line) = Len(line)

\* The start of the first closing fence line at or after the line starting at i;
\* 0 when no line closes the block.
RECURSIVE ClosingLine(_, _)
ClosingLine(s, i) ==
    IF i > Len(s) THEN 0
    ELSE IF ClosingFence(LineAt(s, i)) THEN i
         ELSE ClosingLine(s, LineEnd(s, i) + 1)

\* The contents of the fenced blocks of the text, in order of appearance, read line
\* by line from the line starting at i: a block's content is what lies between the
\* line of its opening fence and the line of its closing fence.
RECURSIVE FencedBlocks(_, _)
FencedBlocks(s, i) ==
    IF i > Len(s) THEN <<>>
    ELSE IF OpeningFence(LineAt(s, i)) /\ ClosingLine(s, LineEnd(s, i) + 1) # 0
         THEN <<SubSeq(s, LineEnd(s, i) + 1, ClosingLine(s, LineEnd(s, i) + 1) - 1)>>
              \o FencedBlocks(s, LineEnd(s, ClosingLine(s, LineEnd(s, i) + 1)) + 1)
         ELSE FencedBlocks(s, LineEnd(s, i) + 1)

\* C17: once gen_entrypoint has written run.sh, run.sh holds the contents of the
\* fenced blocks of the assistant's reply, in order, joined by line breaks.
C17_RunShIsTheFencedBlocks ==
    (st.name = "gen_entrypoint" /\ st.status \in {"running", "returned"} /\ st.ip >= 4)
      => /\ has(dbs, "workspace", "run.sh")
         /\ dbs.workspace["run.sh"]
              = join(<<"\n">>, FencedBlocks(strip(Last(st.messages).content), 1))

-----------------------------------------------------------------------------
(* Properties of clarify. *)

\* The assistant's last reply, stripped, is the sentinel or begins with "no" in any
\* mix of upper and lower case.
StopReply ==
    LET msg == strip(Last(st.messages).content)
    IN  \/ msg = Sentinel
        \/ Len(msg) >= 2 /\ msg[1] \in {"n", "N"} /\ msg[2] \in {"o", "O"}

\* clarify is about to test the reply it has just received.
AtClarifyCheck == st.name = "clarify" /\ Running /\ CurOp.op = "clarify_check"

\* The operator has skipped: clarify is about to send the make-your-own-assumptions turn.
AtAssumptions == st.name = "clarify" /\ Running /\ CurOp.op = "next"

\* C18: after a reply that is the sentinel or begins with "no", clarify goes to its
\* return without a prompt and without an exchange, and after any other reply it
\* prompts the operator before any exchange; an empty answer or "c" leads to one
\* exchange, which sends the make-your-own-assumptions turn, and then to the
\* return; and from such a reply or such an answer on, clarify does return.
C18_ClarifyEnds ==
    /\ [][/\ AtClarifyCheck
               => /\ exchanges' = exchanges
                  /\ st'.status = "running"
                  /\ Body("clarify")[st'.ip].op
                       = IF StopReply THEN "return" ELSE "clarify_input"
          /\ (st.name = "clarify" /\ Running /\ CurOp.op = "clarify_input")
               => /\ exchanges' = exchanges
                  /\ st'.status = "running"
                  /\ \/ /\ st'.val \in {<<>>, <<"c">>}
                        /\ Body("clarify")[st'.ip].op = "next"
                     \/ /\ \E answer \in ClarifyInputs \ {<<>>, <<"c">>} :
                             st'.val = answer \o IsAnythingElseUnclear
                        /\ Body("clarify")[st'.ip].op = "next_val"
          /\ AtAssumptions
               => /\ Len(exchanges') = Len(exchanges) + 1
                  /\ st'.messages[Len(st'.messages) - 1].content
                       = <<"<Make your own assumptions and state them explicitly before starting>">>
                  /\ Body("clarify")[st'.ip].op = "return"
          /\ (st.name = "clarify" /\ Running /\ CurOp.op = "return")
               => st'.status = "returned" /\ exchanges' = exchanges]_vars
    /\ ((AtClarifyCheck /\ StopReply) \/ AtAssumptions) ~> (st.status = "returned")

C18_Witness ==
    /\ st.name = "clarify" /\ st.status = "returned"
    /\ ExchangesOfStep = 2
    /\ st.ret[3].content = <<"1", " ", "q", "?">>
    /\ Last(st.ret).content = <<"N", "o", "p", "e">>
    /\ "Nothing more to clarify." \in console

-----------------------------------------------------------------------------
(* Properties of ask_feedback. *)

\* The two stores differ at most in the input artifact `feedback`.
SameButFeedback(d, e) ==
    /\ d.memory = e.memory /\ d.workspace = e.workspace /\ d.logs = e.logs
    /\ DOMAIN d.input \cup {"feedback"} = DOMAIN e.input \cup {"feedback"}
    /\ \A k \in DOMAIN d.input \ {"feedback"} : d.input[k] = e.input[k]

\* C19: on every store, with or without a review, ask_feedback does not fail and
\* issues no exchange; when it has returned, its log is empty, `feedback` holds the
\* text the operator typed or, when that was empty, the stored review, and no other
\* artifact has changed.
C19_AskFeedbackStoresFeedback ==
    st.name = "ask_feedback" =>
      /\ st.status \in {"running", "returned"}
      /\ Len(exchanges) = at_call.exchanges
      /\ SameButFeedback(at_call.dbs, dbs)
      /\ st.status = "returned" =>
           /\ st.ret = <<>>
           /\ has(dbs, "input", "feedback")
           /\ \/ dbs.input["feedback"] \in FeedbackInputs \ {<<>>}
              \/ /\ has(at_call.dbs, "memory", "review")
                 /\ dbs.input["feedback"] = at_call.dbs.memory["review"]

-----------------------------------------------------------------------------
(* Properties of the catalog. *)

\* What a step needs from earlier steps: for each log or derived artifact it reads,
\* the set of steps that produce it.
Needs(name) ==
    CASE name = "respec" -> {{"gen_spec"}}
      [] name = "gen_clarified_code" -> {{"clarify"}}
      [] name = "fix_code" -> {{"gen_code_after_unit_tests"}}
      [] name = "gen_unit_tests" -> {{"gen_spec", "respec"}}
      [] name = "gen_code_after_unit_tests" -> {{"gen_spec", "respec"}, {"gen_unit_tests"}}
      [] OTHER -> {}

\* Every step of the workflow comes after a producer of each thing it needs.
Closed(steps) ==
    \A j \in 1..Len(steps) :
      \A producers \in Needs(steps[j]) : \E i \in 1..(j - 1) : steps[i] \in producers

\* The logs and derived artifacts that the steps of a workflow produce for one another.
Produced == {<<"logs", "gen_spec">>, <<"logs", "clarify">>,
             <<"logs", "gen_code_after_unit_tests">>, <<"memory", "specification">>,
             <<"memory", "unit_tests">>}

\* The steps of the running workflow that have returned.
StepsDone == {run.steps[k] : k \in 1..run.i}

\* C20: every workflow of the catalog is closed under the needs of its steps; in a
\* run of a workflow no step fails for want of a log, a specification or unit tests;
\* and the specification that gen_unit_tests and gen_code_after_unit_tests read is
\* the reply that ends the log of respec when respec has run, of gen_spec otherwise.
C20_CatalogIsClosed ==
    /\ \A w \in 1..Len(STEPS) : Closed(STEPS[w].steps)
    /\ (run.pc = "in_step" /\ st.status = "raised")
         => <<CurOp.db, CurOp.key>> \notin Produced
    /\ (run.pc = "in_step" /\ Running /\ st.ip >= 4
        /\ st.name \in {"gen_unit_tests", "gen_code_after_unit_tests"})
         => LET latest == IF "respec" \in StepsDone THEN "respec" ELSE "gen_spec"
            IN  /\ latest \in StepsDone
                /\ st.messages[3].content
                     = Specification
                         \o strip(Last(deserialize_messages(dbs.logs[latest])).content)

C20_Witness ==
    /\ run.key = RESPEC /\ run.pc = "in_step" /\ run.i = 4
    /\ ~has(dbs, "input", "main_prompt") /\ ~has(at_call.dbs, "workspace", "run.sh")
    /\ st.name = "fix_code" /\ st.status = "returned"
    /\ Last(deserialize_messages(dbs.logs["gen_spec"])).content = <<"a">>
    /\ dbs.memory["specification"] = <<"b">>

-----------------------------------------------------------------------------
(* Properties of the steps that talk to the session. *)

ExchangeOps == {"start", "next", "next_none", "next_val"}
WriteOps == {"put_last", "to_files", "overwrite_files", "put_run_sh"}

\* The running step is at a call to the session.
AtExchange == st.name \in SessionSteps /\ Running /\ CurOp.op \in ExchangeOps

\* No call to the session lies at or after position i of the step's body.
NoExchangeFrom(name, i) == \A j \in i..Len(Body(name)) : Body(name)[j].op \notin ExchangeOps

\* C21: in a step that talks to the session, whenever the step is at a call to the
\* session the store is the store the step was called on; the store changes only by
\* a writing operation of the step, which comes after at least one exchange of the
\* step has returned and after which the step calls the session no more; and when a
\* call to the session raises, the step is left with the store it was called on.
C21_WritesFollowLastExchange ==
    /\ [](AtExchange => dbs = at_call.dbs)
    /\ [][st.name \in SessionSteps =>
            /\ dbs' # dbs =>
                 /\ Running /\ CurOp.op \in WriteOps
                 /\ Len(exchanges) > at_call.exchanges
                 /\ NoExchangeFrom(st.name, st.ip)
                 /\ st'.status = "running" /\ st'.ip = st.ip + 1
            /\ (AtExchange /\ st'.status = "raised") =>
                 /\ dbs' = at_call.dbs
                 /\ exchanges' = exchanges]_vars

C21_Witness ==
    /\ st.name = "respec" /\ st.status = "raised" /\ st.err = "Exception"
    /\ Len(exchanges) = at_call.exchanges + 1
    /\ has(dbs, "memory", "specification")
    /\ dbs = at_call.dbs

\* The answers on which execute_entrypoint goes on to the command.
Consent == {<<>>, <<"y">>, <<"y", "e", "s">>}

\* execute_entrypoint has asked the operator, who answered something else.
Refused == st.name = "execute_entrypoint" /\ st.answer \notin Consent \cup {None}

\* C22: a process is started only by execute_entrypoint, at its Popen, after the
\* operator answered the confirmation with "", "y" or "yes", and with run.sh in the
\* workspace the step was called on; after any other answer no process exists, the
\* store is the store the step was called on, and the step returns the empty log;
\* and when run.sh is absent the step fails at its first line, before the operator
\* is asked, and no process is started.
C22_NoExecutionWithoutConsent ==
    /\ []((st.name = "execute_entrypoint" /\ proc # "none")
            => /\ st.answer \in Consent
               /\ has(at_call.dbs, "workspace", "run.sh"))
    /\ [](Refused
            => /\ proc = "none"
               /\ dbs = at_call.dbs
               /\ \/ Running /\ CurOp.op = "return_empty"
                  \/ st.status = "returned" /\ st.ret = <<>>)
    /\ []((st.name = "execute_entrypoint" /\ ~has(at_call.dbs, "workspace", "run.sh"))
            => /\ proc = "none"
               /\ st.answer = None
               /\ \/ Running /\ CurOp.op = "get"
                  \/ st.status = "raised" /\ st.err = "KeyError")
    /\ [][proc' # proc /\ proc = "none"
            => /\ st.name = "execute_entrypoint" /\ Running /\ CurOp.op = "popen"
               /\ st.answer \in Consent
               /\ proc' = "running"]_vars

C22_Witness ==
    /\ st.name = "execute_entrypoint" /\ st.status = "returned"
    /\ st.answer = <<"Y">>
    /\ has(dbs, "workspace", "run.sh")
    /\ proc = "none" /\ st.ret = <<>> /\ dbs = at_call.dbs

====
